---------------------------- MODULE Spec2Model ----------------------------
(***************************************************************************)
(* A model of src/src/ser.rs: the Serialize / Serializer protocol, its     *)
(* default-forwarding sink methods, the SeqIteratorVisitor,                *)
(* MapIteratorVisitor and TupleVisitorN adapters, and the built-in         *)
(* Serialize bindings.  One serialize call is a synchronous, recursive     *)
(* call chain; it is modelled as a small-step machine over an explicit     *)
(* call stack.  The sink is the recording test sink of the specification   *)
(* (it records every call it receives, may fail at one chosen call, and    *)
(* drives every adapter by calling visit() until exhausted or an error).   *)
(***************************************************************************)
EXTENDS Integers, Sequences, FiniteSets, TLC

(***************************************************************************)
(* Bounds of the model.                                                    *)
(***************************************************************************)
\* longest dynamic sequence / set / map drawn as an input
MaxLen == 3
\* the sink may fail at its k-th call, k in 1..MaxFail (0: it never fails)
MaxFail == 8
\* deepest nesting of ownership wrappers drawn as an input
MaxWrap == 2
\* largest wrong length hint handed to the public constructors
MaxHint == 4
\* most further visit() calls a sink makes on an adapter that has reported
\* exhausted or an error
MaxExtra == 2

(***************************************************************************)
(* Program constants.                                                      *)
(***************************************************************************)
\* the largest tuple arity tuple_impls! is invoked for
MaxArity == 12
\* let mut s = &mut [0; 4] in visit_char
CharBufLen == 4

---------------------------------------------------------------------------
(***************************************************************************)
(* Generic helpers.                                                        *)
(***************************************************************************)
Last(s) == s[Len(s)]

Front(s) == SubSeq(s, 1, Len(s) - 1)

RECURSIVE Repeat(_, _)
Repeat(x, n) == IF n = 0 THEN <<>> ELSE <<x>> \o Repeat(x, n - 1)

\* Option<T>: None and Some(x)
None == [some |-> FALSE, v |-> 0]

Some(x) == [some |-> TRUE, v |-> x]

---------------------------------------------------------------------------
(***************************************************************************)
(* Integers.  A value of an integer type is its two's-complement bit       *)
(* pattern, little-endian bytes, so that widening is something done to     *)
(* the representation and not the identity.  isize / usize are 4 or 8      *)
(* bytes wide, the two pointer widths the code is built for.               *)
(***************************************************************************)
SignedTypes == {"i8", "i16", "i32", "i64", "isize"}

UnsignedTypes == {"u8", "u16", "u32", "u64", "usize"}

IntTypes == SignedTypes \cup UnsignedTypes

Widths(ty) ==
    CASE ty \in {"i8", "u8"} -> {1}
      [] ty \in {"i16", "u16"} -> {2}
      [] ty \in {"i32", "u32"} -> {4}
      [] ty \in {"i64", "u64"} -> {8}
      [] ty \in {"isize", "usize"} -> {4, 8}

\* v as i64 that fills with zero bytes
as_i64_ZeroFill(bytes) == bytes \o Repeat(0, 8 - Len(bytes))

\* v as i64: sign extension to 8 bytes
as_i64(bytes) ==
    bytes \o Repeat(IF Last(bytes) >= 128 THEN 255 ELSE 0, 8 - Len(bytes))

\* v as u64: zero extension to 8 bytes
as_u64(bytes) == bytes \o Repeat(0, 8 - Len(bytes))

(***************************************************************************)
(* The number a bit pattern stands for, as sign and magnitude: the         *)
(* magnitude is a little-endian byte string without high zero bytes.       *)
(***************************************************************************)
RECURSIVE StripZeros(_)
StripZeros(bytes) ==
    IF bytes = <<>> THEN <<>>
    ELSE IF Last(bytes) = 0 THEN StripZeros(Front(bytes))
    ELSE bytes

RECURSIVE Invert(_)
Invert(bytes) ==
    IF bytes = <<>> THEN <<>>
    ELSE <<255 - bytes[1]>> \o Invert(Tail(bytes))

RECURSIVE AddCarry(_, _)
AddCarry(bytes, c) ==
    IF bytes = <<>> THEN <<>>
    ELSE <<(bytes[1] + c) % 256>> \o AddCarry(Tail(bytes), (bytes[1] + c) \div 256)

\* the magnitude of a negative pattern: two's-complement negation
Negate(bytes) == AddCarry(Invert(bytes), 1)

NumOf(signed, bytes) ==
    IF signed /\ Last(bytes) >= 128
    THEN [neg |-> TRUE, mag |-> StripZeros(Negate(bytes))]
    ELSE [neg |-> FALSE, mag |-> StripZeros(bytes)]

---------------------------------------------------------------------------
(***************************************************************************)
(* UTF-8, as char::encode_utf8 and str::from_utf8 compute it.              *)
(***************************************************************************)
\* the code points that are chars: the Unicode scalar values
IsChar(cp) == (0 <= cp /\ cp <= 55295) \/ (57344 <= cp /\ cp <= 1114111)

Utf8Bytes(cp) ==
    IF cp < 128 THEN <<cp>>
    ELSE IF cp < 2048 THEN <<192 + (cp \div 64), 128 + (cp % 64)>>
    ELSE IF cp < 65536
    THEN <<224 + (cp \div 4096), 128 + ((cp \div 64) % 64), 128 + (cp % 64)>>
    ELSE <<240 + (cp \div 262144), 128 + ((cp \div 4096) % 64),
           128 + ((cp \div 64) % 64), 128 + (cp % 64)>>

\* v.encode_utf8(buf): None when the buffer is too short for the encoding
encode_utf8(cp, buflen) ==
    IF Len(Utf8Bytes(cp)) <= buflen THEN Some(Utf8Bytes(cp)) ELSE None

IsCont(b) == 128 <= b /\ b <= 191

RECURSIVE Utf8Valid(_)
Utf8Valid(bs) ==
    IF bs = <<>> THEN TRUE
    ELSE LET b == bs[1] IN
      IF b < 128 THEN Utf8Valid(Tail(bs))
      ELSE IF 194 <= b /\ b <= 223
      THEN Len(bs) >= 2 /\ IsCont(bs[2]) /\ Utf8Valid(SubSeq(bs, 3, Len(bs)))
      ELSE IF 224 <= b /\ b <= 239
      THEN /\ Len(bs) >= 3
           /\ IsCont(bs[2]) /\ IsCont(bs[3])
           /\ (b = 224 => bs[2] >= 160)
           /\ (b = 237 => bs[2] <= 159)
           /\ Utf8Valid(SubSeq(bs, 4, Len(bs)))
      ELSE IF 240 <= b /\ b <= 244
      THEN /\ Len(bs) >= 4
           /\ IsCont(bs[2]) /\ IsCont(bs[3]) /\ IsCont(bs[4])
           /\ (b = 240 => bs[2] >= 144)
           /\ (b = 244 => bs[2] <= 143)
           /\ Utf8Valid(SubSeq(bs, 5, Len(bs)))
      ELSE FALSE

\* str::from_utf8(bytes): Ok(the str) or Err
from_utf8(bytes) == IF Utf8Valid(bytes) THEN Some(bytes) ELSE None

\* Path::to_str(): Some(str) exactly when the path is valid UTF-8
to_str(bytes) == IF Utf8Valid(bytes) THEN Some(bytes) ELSE None

---------------------------------------------------------------------------
(***************************************************************************)
(* Described values.  Each kind of value has its own field names.          *)
(***************************************************************************)
VBool(b) == [k |-> "bool", b |-> b]

VInt(ty, bytes) == [k |-> "int", ty |-> ty, bytes |-> bytes]

\* an f32: sign, biased 8-bit exponent, 23-bit mantissa
VF32(sign, exp, man) == [k |-> "f32", sign |-> sign, exp |-> exp, man |-> man]

\* an f64: sign, biased 11-bit exponent, the mantissa's high 23 and low 29 bits
VF64(sign, exp, hi, lo) ==
    [k |-> "f64", sign |-> sign, exp11 |-> exp, manhi |-> hi, manlo |-> lo]

VChar(cp) == [k |-> "char", cp |-> cp]

\* &str
VStr(s) == [k |-> "str", s |-> s]

\* String
VString(s) == [k |-> "String", owned |-> s]

VUnit == [k |-> "unit"]

\* Option<T>: opt is <<>> for None and <<x>> for Some(x)
VOption(opt) == [k |-> "option", opt |-> opt]

\* &[T], Vec<T>, BTreeSet<T>, HashSet<T>: elems in the order iter() yields them
VSeq(src, elems) == [k |-> "seq", src |-> src, elems |-> elems]

\* (T0, ..., TN-1)
VTuple(fields) == [k |-> "tuple", fields |-> fields]

\* BTreeMap<K, V>, HashMap<K, V>: pairs <<key, value>> in the order iter() yields them
VMap(src, pairs) == [k |-> "map", msrc |-> src, pairs |-> pairs]

\* &T, &mut T, Box<T>, Rc<T>, Arc<T>
VWrap(w, inner) == [k |-> "wrap", w |-> w, inner |-> inner]

\* path::Path, path::PathBuf: the bytes of the underlying OsStr
VPath(ty, bytes) == [k |-> "path", pty |-> ty, pbytes |-> bytes]

\* a producer that calls one of the named / enum hooks of the sink
VNamed(method, name, variant, body) ==
    [k |-> "named", method |-> method, name |-> name, variant |-> variant,
     body |-> body]

\* a producer that hands SeqIteratorVisitor::new(iter, len) to visit_seq
VRawSeq(items, hint) == [k |-> "rawseq", items |-> items, hint |-> hint]

\* a producer that hands MapIteratorVisitor::new(iter, len) to visit_map
VRawMap(entries, hint) == [k |-> "rawmap", entries |-> entries, mhint |-> hint]

Wrappers == {"&", "&mut", "Box", "Rc", "Arc"}

Ref(v) == VWrap("&", v)

\* the value under every outer ownership wrapper
RECURSIVE Strip(_)
Strip(v) == IF v.k = "wrap" THEN Strip(v.inner) ELSE v

\* the value whose serialize makes the unqualified call with the same body
Unqualified(v) == IF v.k = "named" THEN v.body ELSE v

---------------------------------------------------------------------------
(***************************************************************************)
(* Calls into the mandatory surface of the sink, and the outcome of a      *)
(* Serializer method with a default body: the call it forwards, or a       *)
(* panic of its own.                                                       *)
(***************************************************************************)
Forward(c) == [t |-> "call", c |-> c]

Panic == [t |-> "panic"]

Delegate(v) == [t |-> "delegate", to |-> v]

visit_bool(v) == Forward([m |-> "visit_bool", b |-> v])

visit_i64(v) == Forward([m |-> "visit_i64", bytes |-> v])

visit_u64(v) == Forward([m |-> "visit_u64", bytes |-> v])

visit_f64(v) == Forward([m |-> "visit_f64", f |-> v])

visit_str(v) == Forward([m |-> "visit_str", s |-> v])

visit_unit == Forward([m |-> "visit_unit"])

visit_none == Forward([m |-> "visit_none"])

visit_some(value) == Forward([m |-> "visit_some", value |-> value])

visit_seq(visitor) == Forward([m |-> "visit_seq", visitor |-> visitor])

visit_map(visitor) == Forward([m |-> "visit_map", mvisitor |-> visitor])

visit_seq_elt(first, value) ==
    Forward([m |-> "visit_seq_elt", first |-> first, value |-> value])

visit_map_elt(first, key, value) ==
    Forward([m |-> "visit_map_elt", first |-> first, key |-> key, mvalue |-> value])

\* the default bodies
visit_isize(v) == visit_i64(as_i64(v))

visit_i8(v) == visit_i64(as_i64(v))

visit_i16(v) == visit_i64(as_i64(v))

visit_i32(v) == visit_i64(as_i64(v))

visit_usize(v) == visit_u64(as_u64(v))

visit_u8(v) == visit_u64(as_u64(v))

visit_u16(v) == visit_u64(as_u64(v))

visit_u32(v) == visit_u64(as_u64(v))

\* the position of the highest set bit of n > 0
RECURSIVE HighBit(_)
HighBit(n) == IF n < 2 THEN 0 ELSE 1 + HighBit(n \div 2)

RECURSIVE Pow2(_)
Pow2(n) == IF n = 0 THEN 1 ELSE 2 * Pow2(n - 1)

\* v as f64: exact.  Exponent rebiased by 1023 - 127; an f32 subnormal is
\* an f64 normal; an infinity or NaN keeps its mantissa bits
as_f64(v) ==
    IF v.exp = 255 THEN VF64(v.sign, 2047, v.man, 0)
    ELSE IF v.exp # 0 THEN VF64(v.sign, v.exp + 896, v.man, 0)
    ELSE IF v.man = 0 THEN VF64(v.sign, 0, 0, 0)
    ELSE LET p == HighBit(v.man)
         IN  VF64(v.sign, p + 874, (v.man - Pow2(p)) * Pow2(23 - p), 0)

visit_f32(v) == visit_f64(as_f64(v))

\* a buffer one byte short: [0; 3]
CharEncodeBuf_Short(cp) == encode_utf8(cp, CharBufLen - 1)

\* let mut s = &mut [0; 4]; v.encode_utf8(s)
CharEncodeBuf(cp) == encode_utf8(cp, CharBufLen)

visit_char(v) ==
    LET len == CharEncodeBuf(v)
    IN  IF ~len.some THEN Panic
        ELSE LET s == from_utf8(len.v)
             IN  IF ~s.some THEN Panic ELSE visit_str(s.v)

visit_named_unit(name) == visit_unit

visit_enum_unit(name, variant) == visit_unit

\* a forwarder that takes one step of the visitor before passing it on
visit_named_seq_Driven(name, visitor) ==
    IF visitor.iter = <<>> THEN visit_seq([visitor EXCEPT !.first = FALSE])
    ELSE visit_seq([visitor EXCEPT !.first = FALSE, !.iter = Tail(@)])

visit_named_seq(name, visitor) == visit_seq(visitor)

visit_enum_seq(name, variant, visitor) == visit_seq(visitor)

visit_named_map(name, visitor) == visit_map(visitor)

visit_enum_map(name, variant, visitor) == visit_map(visitor)

---------------------------------------------------------------------------
(***************************************************************************)
(* The adapters.  visit() is split where it calls the sink: the step up    *)
(* to the call (the state change and the call made, if any) and the        *)
(* return (try! on the call's result).                                     *)
(***************************************************************************)
SeqIteratorVisitor_new(iter, len) ==
    [ty |-> "SeqIteratorVisitor", iter |-> iter, len |-> len, first |-> TRUE]

\* visit() that forgets self.first = false
SeqIteratorVisitor_visit_FirstKept(self) ==
    IF self.iter # <<>>
    THEN [self |-> [self EXCEPT !.iter = Tail(@)],
          call |-> <<visit_seq_elt(self.first, Head(self.iter))>>]
    ELSE [self |-> self, call |-> <<>>]

\* a step that clears first only when the iterator yields an item
SeqIteratorVisitor_visit_FirstOnItem(self) ==
    IF self.iter # <<>>
    THEN [self |-> [self EXCEPT !.first = FALSE, !.iter = Tail(@)],
          call |-> <<visit_seq_elt(self.first, Head(self.iter))>>]
    ELSE [self |-> self, call |-> <<>>]

\* a step that calls iter.next() a second time and drops what it yields
SeqIteratorVisitor_visit_NextTwice(self) ==
    LET first == self.first
        self1 == [self EXCEPT !.first = FALSE]
    IN  IF self1.iter # <<>>
        THEN [self |-> [self1 EXCEPT !.iter =
                            IF Len(@) > 1 THEN Tail(Tail(@)) ELSE Tail(@)],
              call |-> <<visit_seq_elt(first, Head(self1.iter))>>]
        ELSE [self |-> self1, call |-> <<>>]

SeqIteratorVisitor_visit(self) ==
    LET first == self.first
        self1 == [self EXCEPT !.first = FALSE]
    IN  IF self1.iter # <<>>
        THEN [self |-> [self1 EXCEPT !.iter = Tail(@)],
              call |-> <<visit_seq_elt(first, Head(self1.iter))>>]
        ELSE [self |-> self1, call |-> <<>>]

\* a len() that reports what the iterator has left, as size_hint() would
SeqIteratorVisitor_len_Remaining(self) ==
    IF self.len.some THEN Some(Len(self.iter)) ELSE None

SeqIteratorVisitor_len(self) == self.len

\* an adapter that starts as if its first step had been taken
MapIteratorVisitor_new_NotFirst(iter, len) ==
    [ty |-> "MapIteratorVisitor", miter |-> iter, len |-> len, first |-> FALSE]

MapIteratorVisitor_new(iter, len) ==
    [ty |-> "MapIteratorVisitor", miter |-> iter, len |-> len, first |-> TRUE]

\* visit() that hands the key over twice
MapIteratorVisitor_visit_KeyTwice(self) ==
    IF self.miter # <<>>
    THEN [self |-> [self EXCEPT !.miter = Tail(@), !.first = FALSE],
          call |-> <<visit_map_elt(self.first, Head(self.miter)[1],
                                   Head(self.miter)[1])>>]
    ELSE [self |-> [self EXCEPT !.first = FALSE], call |-> <<>>]

\* a step that takes the item off the iterator only after a step before it
MapIteratorVisitor_visit_PeekFirst(self) ==
    LET first == self.first
        self1 == [self EXCEPT !.first = FALSE]
    IN  IF self1.miter # <<>>
        THEN [self |-> IF first THEN self1 ELSE [self1 EXCEPT !.miter = Tail(@)],
              call |-> <<visit_map_elt(first, Head(self1.miter)[1],
                                       Head(self1.miter)[2])>>]
        ELSE [self |-> self1, call |-> <<>>]

MapIteratorVisitor_visit(self) ==
    LET first == self.first
        self1 == [self EXCEPT !.first = FALSE]
    IN  IF self1.miter # <<>>
        THEN [self |-> [self1 EXCEPT !.miter = Tail(@)],
              call |-> <<visit_map_elt(first, Head(self1.miter)[1],
                                       Head(self1.miter)[2])>>]
        ELSE [self |-> self1, call |-> <<>>]

MapIteratorVisitor_len(self) == self.len

\* tuple_impls!: for each arity N the arms $state => $idx and the $len
\* arms whose last two indices are swapped
TupleArms_Swapped(N) ==
    [state \in 0 .. N - 1 |->
        IF N >= 2 /\ state = N - 1 THEN N - 2
        ELSE IF N >= 2 /\ state = N - 2 THEN N - 1
        ELSE state]

TupleArms(N) == [state \in 0 .. N - 1 |-> state]

TupleLen(N) == N

TupleVisitor_new(tuple) ==
    [ty |-> "TupleVisitor", tuple |-> tuple, state |-> 0, first |-> TRUE]

\* a step that counts before it matches, the exhausted step included
TupleVisitor_visit_CountsAll(self) ==
    LET first == self.first
        self1 == [self EXCEPT !.first = FALSE, !.state = (@ + 1) % 256]
        arms == TupleArms(Len(self1.tuple.fields))
    IN  IF self.state \in DOMAIN arms
        THEN [self |-> self1,
              call |-> <<visit_seq_elt(first,
                            Ref(self1.tuple.fields[arms[self.state] + 1]))>>]
        ELSE [self |-> self1, call |-> <<>>]

\* a step that leaves the position counter where it is
TupleVisitor_visit_NoAdvance(self) ==
    LET first == self.first
        self1 == [self EXCEPT !.first = FALSE]
        arms == TupleArms(Len(self1.tuple.fields))
    IN  IF self1.state \in DOMAIN arms
        THEN [self |-> self1,
              call |-> <<visit_seq_elt(first,
                            Ref(self1.tuple.fields[arms[self1.state] + 1]))>>]
        ELSE [self |-> self1, call |-> <<>>]

TupleVisitor_visit(self) ==
    LET first == self.first
        self1 == [self EXCEPT !.first = FALSE]
        arms  == TupleArms(Len(self.tuple.fields))
    IN  IF self1.state \in DOMAIN arms
        THEN [self |-> [self1 EXCEPT !.state = (@ + 1) % 256],
              call |-> <<visit_seq_elt(first,
                             Ref(self1.tuple.fields[arms[self1.state] + 1]))>>]
        ELSE [self |-> self1, call |-> <<>>]

TupleVisitor_len(self) == Some(TupleLen(Len(self.tuple.fields)))

\* visit() without try!: the result of the sink call is dropped
VisitReturns_NoTry(r) == [st |-> "some", e |-> 0]

\* the value visit() returns once the sink call it made has returned r: try!
VisitReturns(r) == IF r.st = "ok" THEN [st |-> "some", e |-> 0] ELSE r

\* the value visit() returns when the source is drained
VisitExhausted == [st |-> "none", e |-> 0]

\* SeqVisitor / MapVisitor dispatch
Visitor_visit(self) ==
    CASE self.ty = "SeqIteratorVisitor" -> SeqIteratorVisitor_visit(self)
      [] self.ty = "MapIteratorVisitor" -> MapIteratorVisitor_visit(self)
      [] self.ty = "TupleVisitor" -> TupleVisitor_visit(self)

Visitor_len(self) ==
    CASE self.ty = "SeqIteratorVisitor" -> SeqIteratorVisitor_len(self)
      [] self.ty = "MapIteratorVisitor" -> MapIteratorVisitor_len(self)
      [] self.ty = "TupleVisitor" -> TupleVisitor_len(self)

---------------------------------------------------------------------------
(***************************************************************************)
(* The Serialize bindings: what v.serialize(serializer) does up to the     *)
(* call it makes.                                                          *)
(***************************************************************************)
\* slice.iter(), set.iter(): the elements by reference, in order
SliceIter(elems) == [i \in 1 .. Len(elems) |-> Ref(elems[i])]

\* map.iter(): pairs of references, in order
MapIter(pairs) == [i \in 1 .. Len(pairs) |-> <<Ref(pairs[i][1]), Ref(pairs[i][2])>>]

\* impl_visit!
Serialize_scalar(self) ==
    CASE self.k = "bool" -> visit_bool(self.b)
      [] self.k = "int" /\ self.ty = "isize" -> visit_isize(self.bytes)
      [] self.k = "int" /\ self.ty = "i8" -> visit_i8(self.bytes)
      [] self.k = "int" /\ self.ty = "i16" -> visit_i16(self.bytes)
      [] self.k = "int" /\ self.ty = "i32" -> visit_i32(self.bytes)
      [] self.k = "int" /\ self.ty = "i64" -> visit_i64(self.bytes)
      [] self.k = "int" /\ self.ty = "usize" -> visit_usize(self.bytes)
      [] self.k = "int" /\ self.ty = "u8" -> visit_u8(self.bytes)
      [] self.k = "int" /\ self.ty = "u16" -> visit_u16(self.bytes)
      [] self.k = "int" /\ self.ty = "u32" -> visit_u32(self.bytes)
      [] self.k = "int" /\ self.ty = "u64" -> visit_u64(self.bytes)
      [] self.k = "f32" -> visit_f32(self)
      [] self.k = "f64" -> visit_f64(self)
      [] self.k = "char" -> visit_char(self.cp)

Serialize_str(self) == visit_str(self.s)

Serialize_String(self) == Delegate(VStr(self.owned))

\* None described as the unit value
Serialize_Option_NoneAsUnit(self) ==
    IF self.opt # <<>> THEN visit_some(Ref(self.opt[1])) ELSE visit_unit

Serialize_Option(self) ==
    IF self.opt # <<>> THEN visit_some(Ref(self.opt[1])) ELSE visit_none

Serialize_slice(self) ==
    visit_seq(SeqIteratorVisitor_new(SliceIter(self.elems), Some(Len(self.elems))))

Serialize_Vec(self) == Delegate(VSeq("slice", self.elems))

Serialize_BTreeSet(self) ==
    visit_seq(SeqIteratorVisitor_new(SliceIter(self.elems), Some(Len(self.elems))))

Serialize_HashSet(self) ==
    visit_seq(SeqIteratorVisitor_new(SliceIter(self.elems), Some(Len(self.elems))))

Serialize_unit(self) == visit_unit

Serialize_tuple(self) == visit_seq(TupleVisitor_new(self))

Serialize_BTreeMap(self) ==
    visit_map(MapIteratorVisitor_new(MapIter(self.pairs), Some(Len(self.pairs))))

Serialize_HashMap(self) ==
    visit_map(MapIteratorVisitor_new(MapIter(self.pairs), Some(Len(self.pairs))))

\* a wrapper described as a some-event around its value
Serialize_wrapper_AsSome(self) ==
    IF self.w = "&" THEN Delegate(self.inner) ELSE visit_some(self.inner)

\* &T, &mut T, Box<T>, Rc<T>, Arc<T>: (**self).serialize(serializer)
Serialize_wrapper(self) == Delegate(self.inner)

Serialize_Path(self) ==
    LET s == to_str(self.pbytes)
    IN  IF ~s.some THEN Panic ELSE Delegate(VStr(s.v))

(***************************************************************************)
(* Producers outside ser.rs that use its public surface: the named and     *)
(* enum hooks, and the adapters' public constructors with a length of      *)
(* the caller's choosing.                                                  *)
(***************************************************************************)
BodyVisitor(body) ==
    IF body.k = "map"
    THEN MapIteratorVisitor_new(MapIter(body.pairs), Some(Len(body.pairs)))
    ELSE SeqIteratorVisitor_new(SliceIter(body.elems), Some(Len(body.elems)))

Serialize_named(self) ==
    CASE self.method = "visit_named_unit" -> visit_named_unit(self.name)
      [] self.method = "visit_enum_unit" ->
            visit_enum_unit(self.name, self.variant)
      [] self.method = "visit_named_seq" ->
            visit_named_seq(self.name, BodyVisitor(self.body))
      [] self.method = "visit_enum_seq" ->
            visit_enum_seq(self.name, self.variant, BodyVisitor(self.body))
      [] self.method = "visit_named_map" ->
            visit_named_map(self.name, BodyVisitor(self.body))
      [] self.method = "visit_enum_map" ->
            visit_enum_map(self.name, self.variant, BodyVisitor(self.body))

Serialize_rawseq(self) ==
    visit_seq(SeqIteratorVisitor_new(SliceIter(self.items), self.hint))

Serialize_rawmap(self) ==
    visit_map(MapIteratorVisitor_new(MapIter(self.entries), self.mhint))

\* self.serialize(serializer), by the type of self
serialize(self) ==
    CASE self.k \in {"bool", "int", "f32", "f64", "char"} -> Serialize_scalar(self)
      [] self.k = "str" -> Serialize_str(self)
      [] self.k = "String" -> Serialize_String(self)
      [] self.k = "option" -> Serialize_Option(self)
      [] self.k = "seq" /\ self.src = "slice" -> Serialize_slice(self)
      [] self.k = "seq" /\ self.src = "Vec" -> Serialize_Vec(self)
      [] self.k = "seq" /\ self.src = "BTreeSet" -> Serialize_BTreeSet(self)
      [] self.k = "seq" /\ self.src = "HashSet" -> Serialize_HashSet(self)
      [] self.k = "unit" -> Serialize_unit(self)
      [] self.k = "tuple" -> Serialize_tuple(self)
      [] self.k = "map" /\ self.msrc = "BTreeMap" -> Serialize_BTreeMap(self)
      [] self.k = "map" /\ self.msrc = "HashMap" -> Serialize_HashMap(self)
      [] self.k = "wrap" -> Serialize_wrapper(self)
      [] self.k = "path" -> Serialize_Path(self)
      [] self.k = "named" -> Serialize_named(self)
      [] self.k = "rawseq" -> Serialize_rawseq(self)
      [] self.k = "rawmap" -> Serialize_rawmap(self)

---------------------------------------------------------------------------
(***************************************************************************)
(* The inputs: the values a serialize call is made on.                     *)
(***************************************************************************)
U8(n) == VInt("u8", <<n>>)

Seqs(S) == UNION {[1 .. n -> S] : n \in 0 .. MaxLen}

\* the boundary bit patterns of a w-byte integer
IntPatterns(w) ==
    { Repeat(0, w), <<1>> \o Repeat(0, w - 1), Repeat(255, w),
      Repeat(255, w - 1) \o <<127>>, Repeat(0, w - 1) \o <<128>>,
      <<128>> \o Repeat(0, w - 1), <<30>> \o Repeat(0, w - 1) }

IntInputs ==
    UNION { UNION { {VInt(ty, b) : b \in IntPatterns(w)} : w \in Widths(ty) }
            : ty \in IntTypes }

CharInputs ==
    {VChar(cp) : cp \in {0, 65, 127, 128, 233, 2047, 2048, 55295, 57344,
                         65535, 65536, 1114111}}

FloatInputs ==
    { VF32(0, 0, 0), VF32(1, 0, 1), VF32(0, 0, 4194305), VF32(1, 127, 0), VF32(0, 128, 4788187), VF32(0, 255, 0),
      VF32(1, 255, 1), VF64(0, 1023, 0, 0), VF64(1, 1024, 4788187, 1) }

Alice == <<65, 108, 105, 99, 101>>

StrInputs ==
    { VStr(<<>>), VStr(<<97>>), VStr(Alice), VStr(<<195, 169>>),
      VString(<<>>), VString(Alice) }

ScalarInputs ==
    {VBool(TRUE), VBool(FALSE), VUnit} \cup IntInputs \cup CharInputs
        \cup FloatInputs \cup StrInputs

OptionInputs ==
    { VOption(<<>>), VOption(<<U8(1)>>), VOption(<<VOption(<<>>)>>),
      VOption(<<VOption(<<VStr(Alice)>>)>>),
      VOption(<<VSeq("Vec", <<U8(1), U8(2)>>)>>) }

\* the element types of the dynamic sequences drawn, a few values of each
ElemFamilies ==
    << {U8(i) : i \in 1 .. MaxLen},
       {VOption(<<>>), VOption(<<U8(1)>>)},
       {VSeq("Vec", <<>>), VSeq("Vec", <<U8(1), U8(2)>>)},
       {VTuple(<<VStr(<<97>>), VInt("i8", <<255>>)>>),
        VTuple(<<VStr(<<98>>), VInt("i8", <<1>>)>>)},
       {VPath("PathBuf", <<97>>), VPath("PathBuf", <<255>>)} >>

SeqInputs ==
    UNION { {VSeq(src, e) : src \in {"slice", "Vec"}, e \in Seqs(ElemFamilies[i])}
            : i \in DOMAIN ElemFamilies }

IsInjective(s) == \A i, j \in DOMAIN s : s[i] = s[j] => i = j

IsSorted(s) == \A i, j \in DOMAIN s : i < j => s[i] < s[j]

\* the orders a hash table may keep keys 1..MaxLen in; a B-tree keeps them sorted
HashOrders == {s \in Seqs(1 .. MaxLen) : IsInjective(s)}

BTreeOrders == {s \in HashOrders : IsSorted(s)}

SetElems(s) == [i \in DOMAIN s |-> U8(s[i])]

SetInputs ==
    {VSeq("BTreeSet", SetElems(s)) : s \in BTreeOrders}
        \cup {VSeq("HashSet", SetElems(s)) : s \in HashOrders}

\* two map types: u8 -> &str, and &str -> Vec<u8>
MapPair(g, i) ==
    IF g = 1 THEN <<U8(i), VStr(<<96 + i>>)>>
    ELSE <<VStr(<<96 + i>>), VSeq("Vec", [j \in 1 .. i - 1 |-> U8(j)])>>

MapPairs(g, s) == [i \in DOMAIN s |-> MapPair(g, s[i])]

MapInputs ==
    {VMap("BTreeMap", MapPairs(g, s)) : g \in 1 .. 2, s \in BTreeOrders}
        \cup {VMap("HashMap", MapPairs(g, s)) : g \in 1 .. 2, s \in HashOrders}

\* the field at position i (from 1) of the tuples drawn: the types differ by position
TupleField(i) ==
    CASE i % 4 = 1 -> U8(i)
      [] i % 4 = 2 -> VStr(<<64 + i>>)
      [] i % 4 = 3 -> VOption(<<U8(i)>>)
      [] OTHER -> VInt("i8", <<256 - i>>)

TupleInputs ==
    {VTuple([i \in 1 .. N |-> TupleField(i)]) : N \in 1 .. MaxArity}
        \cup { VTuple(<<VStr(Alice), VInt("i32", <<30, 0, 0, 0>>)>>),
               VTuple(<<VSeq("Vec", <<U8(1), U8(2)>>), VTuple(<<VUnit>>)>>),
               VTuple(<<U8(1), VPath("Path", <<255>>), U8(3)>>) }

PathInputs ==
    {VPath(ty, b) : ty \in {"Path", "PathBuf"},
                    b \in {<<>>, <<97>>, <<47, 97>>, <<195, 169>>, <<255>>,
                           <<195>>, <<97, 128>>, <<237, 160, 128>>}}

NameInputs == {"Name", "Point"}

\* the variant names; a hook without a variant gets none
VariantInputs(m) ==
    IF m \in {"visit_enum_unit", "visit_enum_seq", "visit_enum_map"}
    THEN {"Variant", "A"} ELSE {""}

NamedBodies(m) ==
    CASE m \in {"visit_named_unit", "visit_enum_unit"} -> {VUnit}
      [] m \in {"visit_named_seq", "visit_enum_seq"} ->
            {VSeq("slice", e) : e \in {<<>>, <<U8(1), U8(2)>>}}
      [] m \in {"visit_named_map", "visit_enum_map"} ->
            {VMap("BTreeMap", MapPairs(1, s)) : s \in {<<>>, <<1, 2>>}}

NamedMethods ==
    {"visit_named_unit", "visit_enum_unit", "visit_named_seq",
     "visit_enum_seq", "visit_named_map", "visit_enum_map"}

NamedInputs ==
    UNION {{VNamed(m, n, v, b) :
                n \in NameInputs, v \in VariantInputs(m), b \in NamedBodies(m)} :
           m \in NamedMethods}

Hints == {None} \cup {Some(h) : h \in 0 .. MaxHint}

RawInputs ==
    {VRawSeq([i \in 1 .. n |-> U8(i)], h) : n \in 0 .. MaxLen, h \in Hints}
        \cup {VRawMap(MapPairs(1, [i \in 1 .. n |-> i]), h) :
                n \in 0 .. MaxLen, h \in Hints}

WrapStacks == UNION {[1 .. n -> Wrappers] : n \in 1 .. MaxWrap}

RECURSIVE Wrapped(_, _)
Wrapped(ws, v) == IF ws = <<>> THEN v ELSE VWrap(Head(ws), Wrapped(Tail(ws), v))

WrapBases ==
    { VInt("i8", <<255>>), VOption(<<U8(1)>>), VSeq("Vec", <<U8(1), U8(2)>>),
      VMap("BTreeMap", MapPairs(1, <<1, 2>>)), VPath("Path", <<255>>) }

WrapInputs == {Wrapped(ws, v) : ws \in WrapStacks, v \in WrapBases}

Inputs ==
    ScalarInputs \cup OptionInputs \cup SeqInputs \cup SetInputs \cup MapInputs
        \cup TupleInputs \cup PathInputs \cup NamedInputs \cup RawInputs
        \cup WrapInputs

---------------------------------------------------------------------------
(***************************************************************************)
(* The state of one serialize call.                                        *)
(***************************************************************************)
VARIABLES
    val,      \* the value serialize is called on
    failAt,   \* the sink fails at its failAt-th call (0: never)
    events,   \* the calls the sink has received in this pass, in order
    stack,    \* the call chain, innermost first
    ret,      \* the result being returned to the innermost frame
    pass,     \* 1: the first serialize call, 2: the second
    prev,     \* the first pass: its value, events and result
    extra     \* the further visit() calls the sink makes on an adapter
              \* that has reported exhausted or an error (0: none)

vars == <<val, failAt, events, stack, ret, pass, prev, extra>>

Run == [st |-> "run", e |-> 0]

Ok == [st |-> "ok", e |-> 0]

Err(e) == [st |-> "err", e |-> e]

Panicked == [st |-> "panic", e |-> 0]

\* a pending value.serialize(sink)
Ser(v) == [f |-> "ser", v |-> v]

\* the sink inside visit_seq / visit_map, driving a visitor; origin is the
\* value whose binding made the call, calls and rets are the calls visit()
\* made and the results it returned; more counts the further visit() calls
\* made after the visitor reported exhausted or an error, during which back
\* and pending keep the status and the result the sink will return
Drive(a, origin) ==
    [f |-> "drive", a |-> a, status |-> "loop", rets |-> <<>>, calls |-> <<>>,
     origin |-> origin, more |-> 0, back |-> "loop", pending |-> Run]

Top == stack[1]

Rest == Tail(stack)

ScalarMethods ==
    {"visit_bool", "visit_i64", "visit_u64", "visit_f64", "visit_str",
     "visit_unit", "visit_none"}

(***************************************************************************)
(* The recording sink: every call is recorded, and the failAt-th fails.    *)
(***************************************************************************)
Fails == failAt = Len(events) + 1

SinkResult == IF Fails THEN Err(failAt) ELSE Ok

\* what the sink records of a call: of visit_seq / visit_map the length hint
Event(c) ==
    CASE c.m = "visit_seq" -> [m |-> "visit_seq", len |-> Visitor_len(c.visitor)]
      [] c.m = "visit_map" -> [m |-> "visit_map", mlen |-> Visitor_len(c.mvisitor)]
      [] OTHER -> c

\* the values the sink serializes inside visit_seq_elt / visit_map_elt
EltFrames(c) ==
    IF c.m = "visit_map_elt" THEN <<Ser(c.key), Ser(c.mvalue)>>
    ELSE <<Ser(c.value)>>

Init ==
    /\ val \in Inputs
    /\ failAt \in 0 .. MaxFail
    /\ events = <<>>
    /\ stack = <<Ser(val)>>
    /\ ret = Run
    /\ pass = 1
    /\ prev = <<>>
    /\ extra = 0

Calling == stack # <<>> /\ Top.f = "ser" /\ ret.st = "run"

\* a binding that hands over to another binding and makes no call itself
SerializeDelegate ==
    /\ Calling
    /\ serialize(Top.v).t = "delegate"
    /\ stack' = <<Ser(serialize(Top.v).to)>> \o Rest
    /\ UNCHANGED <<val, failAt, events, ret, pass, prev, extra>>

\* a binding or default method that panics
SerializePanic ==
    /\ Calling
    /\ serialize(Top.v).t = "panic"
    /\ stack' = Rest
    /\ ret' = Panicked
    /\ UNCHANGED <<val, failAt, events, pass, prev, extra>>

\* a call of a scalar method of the sink
SerializeScalar ==
    /\ Calling
    /\ serialize(Top.v).t = "call"
    /\ serialize(Top.v).c.m \in ScalarMethods
    /\ events' = Append(events, Event(serialize(Top.v).c))
    /\ ret' = SinkResult
    /\ stack' = Rest
    /\ UNCHANGED <<val, failAt, pass, prev, extra>>

\* visit_some: the sink records it and serializes the value
SerializeSome ==
    /\ Calling
    /\ serialize(Top.v).t = "call"
    /\ serialize(Top.v).c.m = "visit_some"
    /\ events' = Append(events, Event(serialize(Top.v).c))
    /\ IF Fails
       THEN stack' = Rest /\ ret' = SinkResult
       ELSE stack' = <<Ser(serialize(Top.v).c.value)>> \o Rest /\ ret' = ret
    /\ UNCHANGED <<val, failAt, pass, prev, extra>>

\* visit_seq: the sink records the begin and starts driving the visitor
SerializeSeq ==
    /\ Calling
    /\ serialize(Top.v).t = "call"
    /\ serialize(Top.v).c.m = "visit_seq"
    /\ events' = Append(events, Event(serialize(Top.v).c))
    /\ IF Fails
       THEN stack' = Rest /\ ret' = SinkResult
       ELSE stack' = <<Drive(serialize(Top.v).c.visitor, Top.v)>> \o Rest
            /\ ret' = ret
    /\ UNCHANGED <<val, failAt, pass, prev, extra>>

\* visit_map: the same for a map visitor
SerializeMap ==
    /\ Calling
    /\ serialize(Top.v).t = "call"
    /\ serialize(Top.v).c.m = "visit_map"
    /\ events' = Append(events, Event(serialize(Top.v).c))
    /\ IF Fails
       THEN stack' = Rest /\ ret' = SinkResult
       ELSE stack' = <<Drive(serialize(Top.v).c.mvisitor, Top.v)>> \o Rest
            /\ ret' = ret
    /\ UNCHANGED <<val, failAt, pass, prev, extra>>

Driving(status) == stack # <<>> /\ Top.f = "drive" /\ Top.status = status

\* the sink's loop on the value visit() returned: on, or out with the failure
Returned(fr, r) ==
    [fr EXCEPT !.rets = Append(@, r),
               !.status = IF r.st = "some" THEN "loop" ELSE "failed"]

Resume(r) == IF r.st = "some" THEN Run ELSE r

\* visitor.visit(sink): to the end when the source is drained or the sink
\* fails the call visit() makes, else up to the sink serializing the element
Visit ==
    /\ Driving("loop")
    /\ ret.st = "run"
    /\ LET r == Visitor_visit(Top.a)
           fr == [Top EXCEPT !.a = r.self]
       IN  IF r.call = <<>>
           THEN /\ stack' = <<[fr EXCEPT !.status = "exhausted",
                                         !.rets = Append(@, VisitExhausted)]>>
                              \o Rest
                /\ UNCHANGED <<events, ret>>
           ELSE LET c == r.call[1].c
                    called == [fr EXCEPT !.calls = Append(@, c)]
                IN  /\ events' = Append(events, Event(c))
                    /\ IF Fails
                       THEN /\ stack' = <<Returned(called, VisitReturns(SinkResult))>>
                                          \o Rest
                            /\ ret' = Resume(VisitReturns(SinkResult))
                       ELSE /\ stack' = EltFrames(c)
                                          \o <<[called EXCEPT !.status = "awaiting"]>>
                                          \o Rest
                            /\ ret' = ret
    /\ UNCHANGED <<val, failAt, pass, prev, extra>>

\* the sink call visit() made returns, and visit() returns
VisitReturn ==
    /\ Driving("awaiting")
    /\ ret.st # "run"
    /\ stack' = <<Returned(Top, VisitReturns(ret))>> \o Rest
    /\ ret' = Resume(VisitReturns(ret))
    /\ UNCHANGED <<val, failAt, events, pass, prev, extra>>

\* the visitor is exhausted: the sink records the end and returns
DriveEnd ==
    /\ Driving("exhausted")
    /\ Top.more = extra
    /\ events' = Append(events,
                        [m |-> IF Top.a.ty = "MapIteratorVisitor" THEN "map_end"
                               ELSE "seq_end"])
    /\ ret' = SinkResult
    /\ stack' = Rest
    /\ UNCHANGED <<val, failAt, pass, prev, extra>>

\* visit() failed: the sink returns the failure
DriveFail ==
    /\ Driving("failed")
    /\ Top.more = extra \/ ret.st = "panic"
    /\ stack' = Rest
    /\ UNCHANGED <<val, failAt, events, ret, pass, prev, extra>>

\* inside visit_map_elt the key is done: on to the value, or out on a failure
EltNext ==
    /\ stack # <<>>
    /\ Top.f = "ser"
    /\ ret.st # "run"
    /\ IF ret.st = "ok"
       THEN ret' = Run /\ stack' = stack
       ELSE ret' = ret /\ stack' = Rest
    /\ UNCHANGED <<val, failAt, events, pass, prev, extra>>

Done == stack = <<>>

\* the caller serializes again, into a sink that behaves as the first did:
\* the same value, or the value with its outer ownership wrappers taken off
Again ==
    /\ Done
    /\ pass = 1
    /\ prev' = <<[val |-> val, events |-> events, ret |-> ret]>>
    /\ pass' = 2
    /\ val' \in {val, Strip(val), Unqualified(val)}
    /\ events' = <<>>
    /\ stack' = <<Ser(val')>>
    /\ ret' = Run
    /\ UNCHANGED <<failAt, extra>>

Next ==
    \/ SerializeDelegate
    \/ SerializePanic
    \/ SerializeScalar
    \/ SerializeSome
    \/ SerializeSeq
    \/ SerializeMap
    \/ Visit
    \/ VisitReturn
    \/ DriveEnd
    \/ DriveFail
    \/ EltNext
    \/ Again

Spec == Init /\ [][Next]_vars

(***************************************************************************)
(* A sink that goes on calling visit() on an adapter that has reported     *)
(* exhausted or an error, extra times, and then returns what it would      *)
(* have returned at once.  A panic unwinds through the sink: no further    *)
(* call follows it.                                                        *)
(***************************************************************************)
InitMore ==
    /\ val \in Inputs
    /\ failAt \in 0 .. MaxFail
    /\ events = <<>>
    /\ stack = <<Ser(val)>>
    /\ ret = Run
    /\ pass = 1
    /\ prev = <<>>
    /\ extra \in 0 .. MaxExtra

\* a further visitor.visit(sink), up to the return of the sink call it makes
VisitMore ==
    /\ stack # <<>>
    /\ Top.f = "drive"
    /\ Top.status \in {"exhausted", "failed"}
    /\ Top.more < extra
    /\ ret.st # "panic"
    /\ LET r == Visitor_visit(Top.a)
           fr == [Top EXCEPT !.a = r.self, !.more = @ + 1]
       IN  IF r.call = <<>>
           THEN /\ stack' = <<[fr EXCEPT !.rets = Append(@, VisitExhausted)]>>
                              \o Rest
                /\ UNCHANGED <<events, ret>>
           ELSE LET c == r.call[1].c
                    called == [fr EXCEPT !.calls = Append(@, c)]
                IN  /\ events' = Append(events, Event(c))
                    /\ IF Fails
                       THEN /\ stack' = <<[called EXCEPT !.rets =
                                              Append(@, VisitReturns(SinkResult))]>>
                                          \o Rest
                            /\ ret' = ret
                       ELSE /\ stack' = EltFrames(c)
                                          \o <<[called EXCEPT !.status = "more",
                                                              !.back = Top.status,
                                                              !.pending = ret]>>
                                          \o Rest
                            /\ ret' = Run
    /\ UNCHANGED <<val, failAt, pass, prev, extra>>

\* the sink call the further visit() made returns, and visit() returns
VisitMoreReturn ==
    /\ Driving("more")
    /\ ret.st # "run"
    /\ stack' = <<[Top EXCEPT !.rets = Append(@, VisitReturns(ret)),
                              !.status = Top.back]>> \o Rest
    /\ ret' = Top.pending
    /\ UNCHANGED <<val, failAt, events, pass, prev, extra>>

NextMore ==
    \/ SerializeDelegate
    \/ SerializePanic
    \/ SerializeScalar
    \/ SerializeSome
    \/ SerializeSeq
    \/ SerializeMap
    \/ Visit
    \/ VisitReturn
    \/ DriveEnd
    \/ DriveFail
    \/ EltNext
    \/ VisitMore
    \/ VisitMoreReturn

SpecMore == InitMore /\ [][NextMore]_vars

\* the call chain is synchronous: a step that can be taken is taken
LiveSpec == Spec /\ WF_vars(Next)

---------------------------------------------------------------------------
(***************************************************************************)
(* Reading the state.                                                      *)
(***************************************************************************)
VSome == [st |-> "some", e |-> 0]

IsDrive(i) == stack[i].f = "drive"

\* the events received at nesting depth n, d being the depth before evs[i]:
\* a begin and its end are at the depth of the composite, its elts one deeper
RECURSIVE AtDepth(_, _, _, _)
AtDepth(evs, i, d, n) ==
    IF i > Len(evs) THEN <<>>
    ELSE LET ev == evs[i]
             at == IF ev.m \in {"seq_end", "map_end"} THEN d - 1 ELSE d
             after == IF ev.m \in {"visit_seq", "visit_map"} THEN d + 1 ELSE at
         IN  (IF at = n THEN <<ev>> ELSE <<>>) \o AtDepth(evs, i + 1, after, n)

IsElt(ev) == ev.m \in {"visit_seq_elt", "visit_map_elt"}

\* the calls the serialized value itself made
OuterCalls == AtDepth(events, 1, 0, 0)

\* the visit_seq_elt / visit_map_elt calls of the outermost composite
OuterElts == SelectSeq(AtDepth(events, 1, 0, 1), IsElt)

\* the pass ran to its end and the sink never failed
Completed == Done /\ ret.st = "ok"

---------------------------------------------------------------------------
(***************************************************************************)
(* C1.  A sequence source of C elements (slice, Vec, BTreeSet, HashSet)    *)
(* is bound with len = Some(C); driven to exhaustion, visit() returns      *)
(* Ok(Some(())) C times and then Ok(None), and visit_seq_elt is called C   *)
(* times, with first = true on the first call only; for C = 0 it is not    *)
(* called at all.                                                          *)
(***************************************************************************)
SeqFrameOk(fr) ==
    LET C == Len(fr.origin.elems)
    IN  /\ SeqIteratorVisitor_len(fr.a) = Some(C)
        /\ Len(fr.calls) <= C
        /\ \A i \in 1 .. Len(fr.calls) :
              fr.calls[i].m = "visit_seq_elt" /\ fr.calls[i].first = (i = 1)
        /\ \A i \in 1 .. Len(fr.rets) - 1 : fr.rets[i] = VSome
        /\ fr.status = "loop" => fr.rets = Repeat(VSome, Len(fr.calls))
        /\ fr.status = "exhausted" =>
              /\ fr.rets = Repeat(VSome, C) \o <<VisitExhausted>>
              /\ Len(fr.calls) = C

C1_SeqSteps ==
    /\ \A i \in 1 .. Len(stack) :
          IsDrive(i) /\ stack[i].origin.k = "seq" => SeqFrameOk(stack[i])
    /\ Completed /\ val.k = "seq" =>
          /\ OuterCalls = <<[m |-> "visit_seq", len |-> Some(Len(val.elems))],
                            [m |-> "seq_end"]>>
          /\ Len(OuterElts) = Len(val.elems)
          /\ \A i \in 1 .. Len(OuterElts) :
                OuterElts[i].m = "visit_seq_elt" /\ OuterElts[i].first = (i = 1)

C1_Witness ==
    /\ stack # <<>>
    /\ IsDrive(1)
    /\ Top.origin.k = "seq"
    /\ Top.status = "exhausted"
    /\ Len(Top.origin.elems) = MaxLen
    /\ failAt = 0

(***************************************************************************)
(* C2.  A map of M pairs (BTreeMap, HashMap) driven to exhaustion makes M  *)
(* calls of visit_map_elt, the i-th carrying the i-th key with its own     *)
(* value, first = true on the first only, then Ok(None); the number of     *)
(* steps is the len() the adapter reports.                                 *)
(***************************************************************************)
MapFrameOk(fr) ==
    LET M == Len(fr.origin.pairs)
    IN  /\ Len(fr.calls) <= M
        /\ \A i \in 1 .. Len(fr.calls) :
              /\ fr.calls[i].m = "visit_map_elt"
              /\ fr.calls[i].first = (i = 1)
              /\ fr.calls[i].key = Ref(fr.origin.pairs[i][1])
              /\ fr.calls[i].mvalue = Ref(fr.origin.pairs[i][2])
        /\ \A i \in 1 .. Len(fr.rets) - 1 : fr.rets[i] = VSome
        /\ fr.status = "exhausted" =>
              /\ fr.rets = Repeat(VSome, M) \o <<VisitExhausted>>
              /\ Len(fr.calls) = M
              /\ MapIteratorVisitor_len(fr.a) = Some(Len(fr.calls))

C2_MapSteps ==
    /\ \A i \in 1 .. Len(stack) :
          IsDrive(i) /\ stack[i].origin.k = "map" => MapFrameOk(stack[i])
    /\ Completed /\ val.k = "map" =>
          /\ OuterCalls = <<[m |-> "visit_map", mlen |-> Some(Len(val.pairs))],
                            [m |-> "map_end"]>>
          /\ OuterElts = [i \in 1 .. Len(val.pairs) |->
                            [m |-> "visit_map_elt", first |-> (i = 1),
                             key |-> Ref(val.pairs[i][1]),
                             mvalue |-> Ref(val.pairs[i][2])]]

C2_Witness ==
    /\ stack # <<>>
    /\ IsDrive(1)
    /\ Top.origin.k = "map"
    /\ Top.origin.msrc = "HashMap"
    /\ Top.status = "exhausted"
    /\ Len(Top.origin.pairs) = MaxLen

(***************************************************************************)
(* C3.  An N-tuple, N in 1..12, calls visit_seq once with an adapter whose *)
(* len() is Some(N); driven to exhaustion the adapter makes N calls of     *)
(* visit_seq_elt carrying the fields at positions 0..N-1 in that order,    *)
(* first = true for position 0 only, and then returns Ok(None).            *)
(***************************************************************************)
TupleFrameOk(fr) ==
    LET N == Len(fr.origin.fields)
    IN  /\ N \in 1 .. MaxArity
        /\ TupleVisitor_len(fr.a) = Some(N)
        /\ Len(fr.calls) <= N
        /\ \A i \in 1 .. Len(fr.calls) :
              fr.calls[i] = [m |-> "visit_seq_elt", first |-> (i = 1),
                             value |-> Ref(fr.origin.fields[i])]
        /\ \A i \in 1 .. Len(fr.rets) - 1 : fr.rets[i] = VSome
        /\ fr.status = "exhausted" =>
              /\ fr.rets = Repeat(VSome, N) \o <<VisitExhausted>>
              /\ Len(fr.calls) = N

C3_TupleFidelity ==
    /\ \A i \in 1 .. Len(stack) :
          IsDrive(i) /\ stack[i].origin.k = "tuple" => TupleFrameOk(stack[i])
    /\ Completed /\ val.k = "tuple" =>
          /\ OuterCalls = <<[m |-> "visit_seq", len |-> Some(Len(val.fields))],
                            [m |-> "seq_end"]>>
          /\ OuterElts = [i \in 1 .. Len(val.fields) |->
                            [m |-> "visit_seq_elt", first |-> (i = 1),
                             value |-> Ref(val.fields[i])]]

C3_Witness ==
    /\ Completed
    /\ val.k = "tuple"
    /\ Len(val.fields) = MaxArity
    /\ Len(OuterElts) = MaxArity

(***************************************************************************)
(* C4.  Whatever length the public constructors were given: when len()     *)
(* returns Some(n), n is the number of elements the adapter produces       *)
(* before it reports exhausted.                                            *)
(***************************************************************************)
C4_LenHintExact ==
    \A i \in 1 .. Len(stack) :
        IsDrive(i) /\ stack[i].status = "exhausted" /\ Visitor_len(stack[i].a).some
            => Visitor_len(stack[i].a).v = Len(stack[i].calls)

(***************************************************************************)
(* C5.  Fail-fast: once the sink has failed its k-th call, the adapter     *)
(* step that made the call returns that error, no further call reaches     *)
(* the sink, and every enclosing composite returns the same error.         *)
(***************************************************************************)
SinkFailed == failAt > 0 /\ Len(events) >= failAt

C5_FailFast ==
    SinkFailed =>
        /\ Len(events) = failAt
        /\ ret = Err(failAt)
        /\ \A i \in 1 .. Len(stack) :
              IsDrive(i) =>
                  /\ stack[i].status \in {"failed", "awaiting"}
                  /\ stack[i].status = "failed" => Last(stack[i].rets) = Err(failAt)
                  /\ \A j \in 1 .. Len(stack[i].rets) - 1 : stack[i].rets[j] = VSome

C5_Witness ==
    /\ SinkFailed
    /\ Len(stack) >= 2
    /\ IsDrive(1)
    /\ Top.status = "failed"
    /\ Len(Top.calls) >= 2
    /\ Last(events).m = "visit_seq_elt"
    /\ IsDrive(Len(stack))

(***************************************************************************)
(* C6.  A sink method with a default body makes exactly one call, of its   *)
(* canonical method, and fails exactly when that call fails, with the      *)
(* same error; it never fails on its own, whatever the value.              *)
(***************************************************************************)
IsForwarded(v) ==
    \/ v.k = "int" /\ v.ty \notin {"i64", "u64"}
    \/ v.k \in {"f32", "char", "named"}

CanonicalOf(v) ==
    CASE v.k = "int" /\ v.ty \in SignedTypes -> "visit_i64"
      [] v.k = "int" /\ v.ty \in UnsignedTypes -> "visit_u64"
      [] v.k = "f32" -> "visit_f64"
      [] v.k = "char" -> "visit_str"
      [] v.k = "named" /\ v.method \in {"visit_named_unit", "visit_enum_unit"}
            -> "visit_unit"
      [] v.k = "named" /\ v.method \in {"visit_named_seq", "visit_enum_seq"}
            -> "visit_seq"
      [] v.k = "named" /\ v.method \in {"visit_named_map", "visit_enum_map"}
            -> "visit_map"

C6_Step ==
    Calling /\ IsForwarded(Top.v) =>
        /\ Len(events') = Len(events) + 1
        /\ SubSeq(events', 1, Len(events)) = events
        /\ Last(events').m = CanonicalOf(Top.v)
        /\ ret'.st # "panic"
        /\ (ret'.st = "err") <=> (failAt = Len(events'))
        /\ ret'.st = "err" => ret' = Err(failAt) /\ stack' = Rest
        /\ CanonicalOf(Top.v) \in ScalarMethods /\ ret'.st # "err" =>
              ret' = Ok /\ stack' = Rest

C6_Final ==
    Done /\ IsForwarded(val) =>
        ret = IF failAt \in 1 .. Len(events) THEN Err(failAt) ELSE Ok

C6_ForwardNoNewFailure == [][C6_Step]_vars /\ []C6_Final

C6_Witness ==
    /\ Done
    /\ val = VChar(1114111)
    /\ events = <<[m |-> "visit_str", s |-> <<244, 143, 191, 191>>]>>
    /\ ret = Err(1)

(***************************************************************************)
(* C7.  Ownership wrappers are transparent: serializing a value under any  *)
(* nesting of &, &mut, Box, Rc, Arc gives the sink the same calls, and     *)
(* the caller the same result, as serializing the value itself, whether    *)
(* or not the sink fails.                                                  *)
(***************************************************************************)
Unwrapped == pass = 2 /\ prev[1].val.k = "wrap" /\ val = Strip(prev[1].val)

C7_WrapperTransparent ==
    Unwrapped /\ Done => events = prev[1].events /\ ret = prev[1].ret

C7_Witness ==
    /\ Unwrapped
    /\ Done
    /\ prev[1].val.w = "Rc"
    /\ prev[1].val.inner.k = "wrap"
    /\ prev[1].val.inner.w = "Box"
    /\ val.k = "seq"
    /\ ret = Err(3)
    /\ Len(events) = 3

(***************************************************************************)
(* C8.  Option: None makes one visit_none call and nothing else; Some(x)   *)
(* makes one visit_some call carrying x and no visit_none, and x's own     *)
(* events follow inside that visit_some.                                   *)
(***************************************************************************)
C8_Step ==
    Calling /\ Top.v.k = "option" =>
        IF Top.v.opt = <<>>
        THEN /\ events' = Append(events, [m |-> "visit_none"])
             /\ stack' = Rest
             /\ ret' = SinkResult
        ELSE /\ events' = Append(events, [m |-> "visit_some",
                                          value |-> Ref(Top.v.opt[1])])
             /\ IF Fails THEN stack' = Rest /\ ret' = Err(failAt)
                ELSE stack' = <<Ser(Ref(Top.v.opt[1]))>> \o Rest /\ ret' = Run

C8_Final ==
    val.k = "option" =>
        IF val.opt = <<>>
        THEN /\ Len(events) <= 1
             /\ Done => events = <<[m |-> "visit_none"]>>
        ELSE /\ events # <<>> =>
                  events[1] = [m |-> "visit_some", value |-> Ref(val.opt[1])]
             /\ Done => events # <<>>
             /\ \A i \in 2 .. Len(events) :
                  /\ events[i].m = "visit_some" => events[i].value # Ref(val.opt[1])
                  /\ val.opt[1].k # "option" => events[i].m # "visit_none"

C8_OptionFidelity == [][C8_Step]_vars /\ []C8_Final

C8_Witness ==
    /\ Done
    /\ val = VOption(<<VOption(<<>>)>>)
    /\ events = <<[m |-> "visit_some", value |-> Ref(VOption(<<>>))],
                  [m |-> "visit_none"]>>
    /\ ret = Ok

(***************************************************************************)
(* C9.  A path (Path, PathBuf) makes one visit_str call carrying its       *)
(* string form and returns that call's result, for every path, those       *)
(* that are not valid UTF-8 included: Ok or the sink's error, nothing      *)
(* else.                                                                   *)
(***************************************************************************)
C9_PathAlwaysStr ==
    Done /\ val.k = "path" =>
        /\ ret.st \in {"ok", "err"}
        /\ events = <<[m |-> "visit_str", s |-> val.pbytes]>>

(***************************************************************************)
(* C10.  Widening keeps the value: an i8, i16, i32 or isize reaches        *)
(* visit_i64, and a u8, u16, u32 or usize reaches visit_u64, as a 64-bit   *)
(* argument that stands for the same number, sign included.                *)
(***************************************************************************)
IsNarrow(v) == v.k = "int" /\ v.ty \notin {"i64", "u64"}

C10_WideningKeepsValue ==
    IsNarrow(val) /\ events # <<>> =>
        /\ events[1].m = IF val.ty \in SignedTypes THEN "visit_i64" ELSE "visit_u64"
        /\ Len(events[1].bytes) = 8
        /\ NumOf(val.ty \in SignedTypes, events[1].bytes)
              = NumOf(val.ty \in SignedTypes, val.bytes)

C10_Witness ==
    /\ val = VInt("i8", <<255>>)
    /\ events = <<[m |-> "visit_i64", bytes |-> Repeat(255, 8)]>>
    /\ NumOf(TRUE, events[1].bytes) = [neg |-> TRUE, mag |-> <<1>>]
    /\ ret = Ok

---------------------------------------------------------------------------
(***************************************************************************)
(* C11: on a sink that overrides none of the named and enum hooks, a       *)
(* value serialized through visit_named_unit / visit_enum_unit,            *)
(* visit_named_seq / visit_enum_seq or visit_named_map / visit_enum_map    *)
(* gives exactly the events and the result of the unqualified call         *)
(* (visit_unit(), visit_seq(visitor), visit_map(visitor)) on the same      *)
(* body, whatever the name and the variant; and the visitor reaches the    *)
(* sink undriven: before its first visit() it is the visitor as built.     *)
(***************************************************************************)
Qualified == pass = 2 /\ prev[1].val.k = "named" /\ val = Unqualified(prev[1].val)

NamedUndriven ==
    \A i \in 1 .. Len(stack) :
        (IsDrive(i) /\ stack[i].origin.k = "named"
            /\ stack[i].rets = <<>> /\ stack[i].status = "loop")
        => stack[i].a = BodyVisitor(stack[i].origin.body)

C11_NamedHooksForward ==
    /\ Qualified /\ Done => events = prev[1].events /\ ret = prev[1].ret
    /\ NamedUndriven

C11_Witness ==
    /\ Qualified /\ Done
    /\ prev[1].val.method = "visit_enum_seq"
    /\ prev[1].val.name = "Point" /\ prev[1].val.variant = "A"
    /\ Len(events) > 2
    /\ ret.st = "ok"

---------------------------------------------------------------------------
(***************************************************************************)
(* C12: the same value serialized a second time into a sink that behaves   *)
(* as the first one did gives the same events and the same result,         *)
(* whether the first pass completed or was aborted by an error: at every   *)
(* point of the second pass its events are a prefix of the first pass's.   *)
(* Every serialize call of a composite hands the sink a fresh adapter:     *)
(* first = true and the cursor at the start of the source.                 *)
(***************************************************************************)
\* what the source of the adapter built for the composite v yields, in order
RECURSIVE IterSource(_)
IterSource(v) ==
    CASE v.k = "seq" -> SliceIter(v.elems)
      [] v.k = "rawseq" -> SliceIter(v.items)
      [] v.k = "tuple" -> SliceIter(v.fields)
      [] v.k = "map" -> MapIter(v.pairs)
      [] v.k = "rawmap" -> MapIter(v.entries)
      [] v.k = "named" -> IterSource(v.body)

\* what the source of the adapter a has left to yield
Remaining(a, v) ==
    CASE a.ty = "SeqIteratorVisitor" -> a.iter
      [] a.ty = "MapIteratorVisitor" -> a.miter
      [] a.ty = "TupleVisitor" ->
            SubSeq(IterSource(v), a.state + 1, Len(IterSource(v)))

Untouched(fr) == fr.rets = <<>> /\ fr.calls = <<>> /\ fr.status = "loop"

Repeated == pass = 2 /\ val = prev[1].val

C12_SecondPassSame ==
    /\ Repeated =>
          /\ Len(events) <= Len(prev[1].events)
          /\ events = SubSeq(prev[1].events, 1, Len(events))
    /\ Repeated /\ Done => events = prev[1].events /\ ret = prev[1].ret
    /\ \A i \in 1 .. Len(stack) :
          IsDrive(i) /\ Untouched(stack[i]) =>
              /\ stack[i].a.first
              /\ Remaining(stack[i].a, stack[i].origin) = IterSource(stack[i].origin)

C12_Witness ==
    /\ Repeated /\ Done
    /\ val.k = "map"
    /\ prev[1].ret.st = "err"
    /\ Len(events) > 3

---------------------------------------------------------------------------
(***************************************************************************)
(* C13: a SeqIteratorVisitor or MapIteratorVisitor delivers the items of   *)
(* its source, each once and in the source's order: the i-th element call  *)
(* carries the i-th item the iterator yields, every visit() takes exactly  *)
(* one item off the iterator while there is one, and an adapter that has   *)
(* reported exhausted has delivered them all.                              *)
(***************************************************************************)
\* the visit() calls made on the adapter of a drive frame, the one in
\* progress included
Visits(fr) == Len(fr.rets) + (IF fr.status \in {"awaiting", "more"} THEN 1 ELSE 0)

Min(a, b) == IF a < b THEN a ELSE b

\* the call visit() makes to deliver the item x
Delivers(c, x) ==
    IF c.m = "visit_map_elt" THEN c.key = x[1] /\ c.mvalue = x[2]
    ELSE c.m = "visit_seq_elt" /\ c.value = x

IterFrameOk(fr) ==
    LET src == IterSource(fr.origin)
    IN  /\ Len(fr.calls) = Min(Visits(fr), Len(src))
        /\ Len(Remaining(fr.a, fr.origin)) = Len(src) - Len(fr.calls)
        /\ Remaining(fr.a, fr.origin) = SubSeq(src, Len(fr.calls) + 1, Len(src))
        /\ \A i \in 1 .. Len(fr.calls) : Delivers(fr.calls[i], src[i])
        /\ VisitExhausted \in {fr.rets[i] : i \in 1 .. Len(fr.rets)} =>
              Len(fr.calls) = Len(src)

IsIterFrame(i) ==
    IsDrive(i) /\ stack[i].a.ty \in {"SeqIteratorVisitor", "MapIteratorVisitor"}

\* the values serialized through one of the two iterator adapters
IsIterValue(v) ==
    IF v.k = "named" THEN v.body.k # "unit"
    ELSE v.k \in {"seq", "rawseq", "map", "rawmap"}

C13_EachItemOnceInOrder ==
    /\ \A i \in 1 .. Len(stack) : IsIterFrame(i) => IterFrameOk(stack[i])
    /\ Completed /\ IsIterValue(val) =>
           /\ Len(OuterElts) = Len(IterSource(val))
           /\ \A i \in 1 .. Len(OuterElts) :
                 Delivers(OuterElts[i], IterSource(val)[i])

C13_Witness ==
    /\ stack # <<>>
    /\ IsIterFrame(1)
    /\ Top.origin.k = "rawseq"
    /\ Top.status = "exhausted"
    /\ Len(Top.calls) = MaxLen
    /\ Top.more = 1

---------------------------------------------------------------------------
(***************************************************************************)
(* C14: in every adapter the stored first flag is true exactly as long as  *)
(* visit() has not been called, whatever the first call returned           *)
(* (continuing, exhausted or an error), and no later step sets it back     *)
(* to true; so only the first element call an adapter makes carries        *)
(* first = true, and it is made by the first visit().                      *)
(***************************************************************************)
FirstFrameOk(fr) ==
    /\ fr.a.first = (Visits(fr) = 0)
    /\ \A i \in 1 .. Len(fr.calls) : fr.calls[i].first = (i = 1)
    /\ (fr.rets # <<>> /\ fr.rets[1] = VisitExhausted) => fr.calls = <<>>

\* the i-th frame counted from the bottom of the stack
Frame(stk, i) == stk[Len(stk) - i + 1]

FirstNotReset ==
    \A i \in 1 .. Min(Len(stack), Len(stack')) :
        (Frame(stack, i).f = "drive" /\ Frame(stack', i).f = "drive"
            /\ ~Frame(stack, i).a.first)
        => ~Frame(stack', i).a.first

C14_FirstOnlyBeforeFirstVisit ==
    /\ [](\A i \in 1 .. Len(stack) : IsDrive(i) => FirstFrameOk(stack[i]))
    /\ [][FirstNotReset]_vars

C14_Witness ==
    /\ stack # <<>>
    /\ IsDrive(1)
    /\ Top.status = "failed"
    /\ Len(Top.rets) > 1
    /\ Top.rets[1].st = "err"
    /\ ~Top.a.first

---------------------------------------------------------------------------
(***************************************************************************)
(* C15: for every finite value and a sink that calls visit() until it      *)
(* returns exhausted or an error, every serialize call in progress         *)
(* eventually returns; the events it produces never exceed the number of   *)
(* events of one traversal of the value, which a pass that completes       *)
(* produces exactly; a value without a path returns Ok or the sink's       *)
(* error; and into a sink that never fails no adapter over such a value    *)
(* fails and none is left before it has reported exhausted.                *)
(***************************************************************************)
RECURSIVE EventCount(_), EventCountAll(_), PathFree(_)
\* the events of one complete traversal of v
EventCount(v) ==
    CASE v.k = "option" ->
            IF v.opt = <<>> THEN 1 ELSE 1 + EventCount(v.opt[1])
      [] v.k = "wrap" -> EventCount(v.inner)
      [] v.k = "named" -> EventCount(v.body)
      [] v.k \in {"seq", "tuple", "rawseq"} ->
            2 + Len(IterSource(v)) + EventCountAll(IterSource(v))
      [] v.k \in {"map", "rawmap"} ->
            2 + Len(IterSource(v))
              + EventCountAll([i \in 1 .. Len(IterSource(v)) |-> IterSource(v)[i][1]])
              + EventCountAll([i \in 1 .. Len(IterSource(v)) |-> IterSource(v)[i][2]])
      [] OTHER -> 1

EventCountAll(vs) ==
    IF vs = <<>> THEN 0 ELSE EventCount(Head(vs)) + EventCountAll(Tail(vs))

PathFree(v) ==
    CASE v.k = "path" -> FALSE
      [] v.k = "option" -> v.opt = <<>> \/ PathFree(v.opt[1])
      [] v.k = "wrap" -> PathFree(v.inner)
      [] v.k = "named" -> PathFree(v.body)
      [] v.k \in {"seq", "tuple", "rawseq"} ->
            \A i \in 1 .. Len(IterSource(v)) : PathFree(IterSource(v)[i])
      [] v.k \in {"map", "rawmap"} ->
            \A i \in 1 .. Len(IterSource(v)) :
                PathFree(IterSource(v)[i][1]) /\ PathFree(IterSource(v)[i][2])
      [] OTHER -> TRUE

\* a sink that never fails, on a value that never panics
Healthy == failAt = 0 /\ PathFree(val)

\* the sink leaves a visitor only after exhausted, or after a failure
DriveLeaves ==
    (stack # <<>> /\ Top.f = "drive" /\ Len(stack') < Len(stack))
    => \/ Top.status = "exhausted"
       \/ Top.status = "failed" /\ ~Healthy

FiniteEvents ==
    /\ Healthy =>
          /\ ret.st \in {"run", "ok"}
          /\ \A i \in 1 .. Len(stack) : IsDrive(i) => stack[i].status # "failed"
    /\ Len(events) <= EventCount(val)
    /\ Completed => Len(events) = EventCount(val)
    /\ Done /\ PathFree(val) => ret.st \in {"ok", "err"}

C15_Terminates ==
    /\ (stack # <<>>) ~> Done
    /\ []FiniteEvents
    /\ [][DriveLeaves]_vars

C15_Witness ==
    /\ Completed
    /\ val.k = "tuple"
    /\ Len(val.fields) = MaxArity
    /\ Len(events) > 2 + MaxArity

---------------------------------------------------------------------------
(***************************************************************************)
(* C16: the position counter of a tuple adapter of arity N, 1 <= N <= 12,  *)
(* stays in 0 .. N: a step that visits an element raises it by exactly 1,  *)
(* an exhausted step leaves it alone, and once it is N every further       *)
(* visit() returns exhausted, makes no sink call and leaves the adapter    *)
(* as it was; the u8 never reaches the value where + 1 would overflow.     *)
(***************************************************************************)
U8Max == 255

IsTupleFrame(fr) == fr.f = "drive" /\ fr.a.ty = "TupleVisitor"

CounterOk(fr) ==
    LET N == Len(fr.a.tuple.fields)
        r == TupleVisitor_visit(fr.a)
    IN  /\ N \in 1 .. MaxArity
        /\ fr.a.state \in 0 .. N
        /\ fr.a.state < U8Max
        /\ fr.a.state = Len(fr.calls)
        /\ fr.a.state < N => Len(r.call) = 1 /\ r.self.state = fr.a.state + 1
        /\ fr.a.state = N => r.call = <<>> /\ r.self = fr.a

\* what one step does to the tuple adapter of the i-th frame from the bottom
CounterStep ==
    \A i \in 1 .. Min(Len(stack), Len(stack')) :
        LET fr == Frame(stack, i)
            fr1 == Frame(stack', i)
        IN  (IsTupleFrame(fr) /\ IsTupleFrame(fr1)) =>
              /\ fr1.a.state \in {fr.a.state, fr.a.state + 1}
              /\ fr1.a.state - fr.a.state = Len(fr1.calls) - Len(fr.calls)
              /\ (Visits(fr1) > Visits(fr) /\ fr.a.state = Len(fr.a.tuple.fields)) =>
                    /\ fr1.a = fr.a
                    /\ events' = events
                    /\ Last(fr1.rets) = VisitExhausted

C16_TupleCounterBounded ==
    /\ [](\A i \in 1 .. Len(stack) : IsTupleFrame(stack[i]) => CounterOk(stack[i]))
    /\ [][CounterStep]_vars

C16_Witness ==
    /\ stack # <<>>
    /\ IsTupleFrame(Top)
    /\ Len(Top.a.tuple.fields) = MaxArity
    /\ Top.a.state = MaxArity
    /\ Top.more = MaxExtra
    /\ Top.status = "exhausted"

---------------------------------------------------------------------------
(***************************************************************************)
(* C17: when the j-th visit() of an adapter returns the error of its       *)
(* visit_seq_elt / visit_map_elt call, the adapter has already moved on:   *)
(* first is false and the cursor is past the j-th item.  A further         *)
(* visit() does not deliver the j-th item again: it delivers item j + 1    *)
(* with first = false, or returns exhausted when item j was the last.      *)
(***************************************************************************)
AfterError(fr, j) ==
    LET src == IterSource(fr.origin)
        left == Remaining(fr.a, fr.origin)
    IN  /\ j <= Len(fr.calls)
        /\ j <= Len(src)
        /\ Delivers(fr.calls[j], src[j])
        /\ ~fr.a.first
        /\ Len(left) <= Len(src) - j
        /\ left = SubSeq(src, Len(fr.calls) + 1, Len(src))
        /\ \A i \in j + 1 .. Len(fr.calls) :
              Delivers(fr.calls[i], src[i]) /\ ~fr.calls[i].first
        /\ j < Visits(fr) =>
              IF j = Len(src)
              THEN /\ Len(fr.calls) = j
                   /\ j < Len(fr.rets) => fr.rets[j + 1] = VisitExhausted
              ELSE Len(fr.calls) > j

C17_ErrorLeavesCursorAdvanced ==
    \A i \in 1 .. Len(stack) :
        IsDrive(i) =>
            \A j \in 1 .. Len(stack[i].rets) :
                stack[i].rets[j].st = "err" => AfterError(stack[i], j)

\* a further visit() after a failed step has delivered the next pair
C17_Witness ==
    /\ stack # <<>>
    /\ IsDrive(1)
    /\ Top.a.ty = "MapIteratorVisitor"
    /\ Top.status = "failed"
    /\ Len(Top.rets) > 1
    /\ Top.rets[1].st = "err"
    /\ Top.rets[2] = VSome
    /\ Len(Top.calls) = 2

---------------------------------------------------------------------------
(***************************************************************************)
(* C18: len() of an adapter is the same at every point of its life: the    *)
(* value given to new(), or Some(N) for a tuple adapter of arity N,        *)
(* before the first visit(), after continuing steps, after exhaustion and  *)
(* after a failed step; so for the built-in bindings it is the number of   *)
(* elements of the whole pass, not of those still to come.                 *)
(***************************************************************************)
\* the length hint the adapter built for the composite v was given
RECURSIVE GivenLen(_)
GivenLen(v) ==
    CASE v.k = "rawseq" -> v.hint
      [] v.k = "rawmap" -> v.mhint
      [] v.k = "named" -> GivenLen(v.body)
      [] OTHER -> Some(Len(IterSource(v)))

LenKept ==
    \A i \in 1 .. Min(Len(stack), Len(stack')) :
        (Frame(stack, i).f = "drive" /\ Frame(stack', i).f = "drive")
        => Visitor_len(Frame(stack', i).a) = Visitor_len(Frame(stack, i).a)

C18_LenUnchangedByVisit ==
    /\ [](\A i \in 1 .. Len(stack) :
            IsDrive(i) => Visitor_len(stack[i].a) = GivenLen(stack[i].origin))
    /\ [][LenKept]_vars

C18_Witness ==
    /\ stack # <<>>
    /\ IsDrive(1)
    /\ Top.origin.k = "seq"
    /\ Top.status = "failed"
    /\ Len(Top.rets) = 3
    /\ Top.rets[2].st = "err"
    /\ Top.rets[3] = VisitExhausted
    /\ Visitor_len(Top.a) = Some(2)
    /\ Remaining(Top.a, Top.origin) = <<>>

=============================================================================
